---- MODULE Spec2Model ----
(***************************************************************************)
(* A model of kicad2nd4.py: the conversion of a KiCad position file (CSV)  *)
(* to the NeoDen4 CSV format.                                              *)
(*                                                                         *)
(* A Python str is a sequence of one-character strings.  The micro sign    *)
(* (U+00B5) and the ohm sign (U+2126) of the source are the characters     *)
(* Micro and Ohm.  Python's None is the value None.  A call's outcome is a *)
(* record [type, value]: type "ok" with the value returned, or the type of *)
(* the exception raised with the exception's argument.                     *)
(***************************************************************************)
EXTENDS Integers, Sequences, FiniteSets, TLC

VARIABLES header, records, pos, out, pc, exc, row, ret,
          fields_map, package_regexes,
          fn, arg, res, prev, calls

vars == <<header, records, pos, out, pc, exc, row, ret,
          fields_map, package_regexes, fn, arg, res, prev, calls>>

(***************************************************************************)
(* Characters and character classes (Python 3 str patterns: \d and \w are  *)
(* Unicode aware, and both signs are letters).                             *)
(***************************************************************************)
Micro == "U+00B5"
Ohm == "U+2126"
None == <<"<None>">>

Digits == <<"0", "1", "2", "3", "4", "5", "6", "7", "8", "9">>

IsDigit(c) == \E i \in 1..10 : Digits[i] = c

DigitValue(c) == (CHOOSE i \in 1..10 : Digits[i] = c) - 1

Letters ==
    {"a", "b", "c", "d", "e", "f", "g", "h", "i", "j", "k", "l", "m",
     "n", "o", "p", "q", "r", "s", "t", "u", "v", "w", "x", "y", "z",
     "A", "B", "C", "D", "E", "F", "G", "H", "I", "J", "K", "L", "M",
     "N", "O", "P", "Q", "R", "S", "T", "U", "V", "W", "X", "Y", "Z",
     Micro, Ohm}

IsWord(c) == IsDigit(c) \/ c \in Letters \/ c = "_"

IsSpace(c) == c \in {" ", "\t", "\n", "\r"}

InClass(cls, c) ==
    CASE cls = "d" -> IsDigit(c)
      [] cls = "w" -> IsWord(c)
      [] cls = "." -> c # "\n"

Ok(v) == [type |-> "ok", value |-> v]

Raise(t, v) == [type |-> t, value |-> v]

(***************************************************************************)
(* Regular expressions.  A pattern is the sequence of its elements in      *)
(* source order: a literal character, a greedy class repetition (+ or * ), *)
(* and the brackets of the named group.  re.Pattern.match anchors at the   *)
(* start of the string only, and tries the longest repetition first.       *)
(***************************************************************************)
Lit(s) == [i \in 1..Len(s) |-> [op |-> "lit", c |-> s[i]]]

Plus(cls) == <<[op |-> "plus", c |-> cls]>>

Star(cls) == <<[op |-> "star", c |-> cls]>>

Group(name, p) == <<[op |-> "open", c |-> name]>> \o p \o <<[op |-> "close", c |-> name]>>

NoMatch == [matched |-> FALSE, from |-> 0, to |-> 0]

RECURSIVE RunLength(_, _, _)
RunLength(cls, s, j) ==
    IF j <= Len(s) /\ InClass(cls, s[j]) THEN 1 + RunLength(cls, s, j + 1) ELSE 0

RECURSIVE MatchAt(_, _, _, _, _, _)
RECURSIVE TryRepeat(_, _, _, _, _, _, _, _)
MatchAt(p, i, s, j, from, to) ==
    IF i > Len(p) THEN [matched |-> TRUE, from |-> from, to |-> to]
    ELSE CASE p[i].op = "lit" ->
                IF j <= Len(s) /\ s[j] = p[i].c
                THEN MatchAt(p, i + 1, s, j + 1, from, to) ELSE NoMatch
           [] p[i].op = "open" -> MatchAt(p, i + 1, s, j, j, to)
           [] p[i].op = "close" -> MatchAt(p, i + 1, s, j, from, j - 1)
           [] p[i].op = "plus" ->
                TryRepeat(p, i, s, j, RunLength(p[i].c, s, j), 1, from, to)
           [] p[i].op = "star" ->
                TryRepeat(p, i, s, j, RunLength(p[i].c, s, j), 0, from, to)

RECURSIVE OrShorter(_, _, _, _, _, _, _, _, _)
TryRepeat(p, i, s, j, k, least, from, to) ==
    IF k < least THEN NoMatch
    ELSE OrShorter(MatchAt(p, i + 1, s, j + k, from, to), p, i, s, j, k, least, from, to)

OrShorter(m, p, i, s, j, k, least, from, to) ==
    IF m.matched THEN m ELSE TryRepeat(p, i, s, j, k - 1, least, from, to)

match(expression, input) == MatchAt(expression, 1, input, 1, 1, 0)

group(m, input) == SubSeq(input, m.from, m.to)

PACKAGE_REGEXES ==
    << Plus("w") \o Lit(<<"_">>) \o Group("value", Plus("d")) \o Lit(<<"_">>)
           \o Plus("d") \o Lit(<<"M", "e", "t", "r", "i", "c">>),
       Group("value", Lit(<<"S", "O", "I", "C", "-", "8">>)) \o Star("."),
       Group("value", Lit(<<"F", "i", "d", "u", "c", "i", "a", "l">>))
           \o Lit(<<"_">>) \o Star("."),
       Lit(<<"R", "_", "A", "r", "r", "a", "y", "_",
             "C", "o", "n", "v", "e", "x", "_">>)
           \o Group("value", Plus("d") \o Lit(<<"x">>) \o Plus("d")) >>

\* A format_package that goes through every pattern and keeps the last match.
LastMatch(regexes, k, input) ==
    LET matching == {i \in k..Len(regexes) : match(regexes[i], input).matched}
        last == CHOOSE i \in matching : \A j \in matching : j <= i
    IN  IF matching = {} THEN Ok(input)
        ELSE Ok(group(match(regexes[last], input), input))

RECURSIVE FirstMatch(_, _, _)
RECURSIVE OrNextMatch(_, _, _, _)
FirstMatch(regexes, k, input) ==
    IF k > Len(regexes) THEN Ok(input)
    ELSE OrNextMatch(match(regexes[k], input), regexes, k, input)

OrNextMatch(m, regexes, k, input) ==
    IF m.matched THEN Ok(group(m, input)) ELSE FirstMatch(regexes, k + 1, input)

format_package(input) ==
    IF package_regexes # <<>> /\ input = None
    THEN Raise("TypeError", input)
    ELSE FirstMatch(package_regexes, 1, input)

RECURSIVE Replace(_, _, _)
Replace(s, old, new) ==
    IF s = <<>> THEN <<>>
    ELSE (IF Head(s) = old THEN new ELSE <<Head(s)>>) \o Replace(Tail(s), old, new)

format_value(input) ==
    IF input = None THEN Raise("AttributeError", input)
    ELSE Ok(Replace(Replace(input, Micro, <<"u">>), Ohm, <<>>))

\* A map_layer that passes an unknown side through.
map_layer_passing(input) ==
    IF input = <<"t", "o", "p">> THEN Ok(<<"T">>)
    ELSE IF input = <<"b", "o", "t", "t", "o", "m">> THEN Ok(<<"B">>)
    ELSE Ok(input)

map_layer(input) ==
    IF input = <<"t", "o", "p">> THEN Ok(<<"T">>)
    ELSE IF input = <<"b", "o", "t", "t", "o", "m">> THEN Ok(<<"B">>)
    ELSE Ok(<<>>)

(***************************************************************************)
(* float(input).  A float is [kind, neg, num, scale, err]: kind "nan",     *)
(* "inf" or "finite"; a finite one is the binary64 nearest to the decimal  *)
(* num / 10^scale, negated when neg, and err is the sign of (magnitude of  *)
(* the binary64 value - num / 10^scale): the parse rounds to the nearest   *)
(* binary64, ties to even, and the formatting of a decimal tie depends on  *)
(* which side of the tie the binary64 value lies.  The numbers of the      *)
(* model stay below 2^31, so a decimal here has at most nine fraction      *)
(* digits and differs from 180, from 360 and from every other decimal tie  *)
(* by far more than the binary64 rounding error.                           *)
(***************************************************************************)
RECURSIVE Pow10(_)
Pow10(n) == IF n = 0 THEN 1 ELSE 10 * Pow10(n - 1)

RECURSIVE BitLength(_)
BitLength(n) == IF n = 0 THEN 0 ELSE 1 + BitLength(n \div 2)

\* The binary expansion of r / d (r < d) continued for `bits` more significand
\* bits; `started`: a 1 bit has been produced; `odd`: the last bit produced.
RECURSIVE RoundingSign(_, _, _, _, _)
RoundingSign(r, d, bits, started, odd) ==
    IF bits = 0
    THEN IF r = 0 THEN 0
         ELSE IF 2 * r < d THEN -1
         ELSE IF 2 * r > d THEN 1
         ELSE IF odd THEN 1 ELSE -1
    ELSE IF r = 0 THEN 0
    ELSE LET bit == 2 * r >= d
             rest == IF bit THEN 2 * r - d ELSE 2 * r
         IN  IF started \/ bit
             THEN RoundingSign(rest, d, bits - 1, TRUE, bit)
             ELSE RoundingSign(rest, d, bits, FALSE, FALSE)

Float64Mantissa == 53

FractionError(whole, r, d) ==
    RoundingSign(r, d, Float64Mantissa - BitLength(whole), whole > 0, whole % 2 = 1)

QuotientError(num, d) == FractionError(num \div d, num % d, d)

BinaryError(num, scale) == QuotientError(num, Pow10(scale))

Finite(neg, num, scale) ==
    [kind |-> "finite", neg |-> neg, num |-> num, scale |-> scale,
     err |-> BinaryError(num, scale)]

Infinity(neg) == [kind |-> "inf", neg |-> neg, num |-> 0, scale |-> 0, err |-> 0]

NaN == [kind |-> "nan", neg |-> FALSE, num |-> 0, scale |-> 0, err |-> 0]

RECURSIVE LStrip(_)
LStrip(s) == IF s # <<>> /\ IsSpace(Head(s)) THEN LStrip(Tail(s)) ELSE s

RECURSIVE RStrip(_)
RStrip(s) ==
    IF s # <<>> /\ IsSpace(s[Len(s)]) THEN RStrip(SubSeq(s, 1, Len(s) - 1)) ELSE s

Lower(c) ==
    CASE c = "I" -> "i" [] c = "N" -> "n" [] c = "F" -> "f" [] c = "T" -> "t"
      [] c = "Y" -> "y" [] c = "A" -> "a" [] OTHER -> c

LowerAll(s) == [i \in 1..Len(s) |-> Lower(s[i])]

\* digitpart ::= digit (["_"] digit)* : the index after the digitpart at i.
RECURSIVE DigitPartEnd(_, _)
DigitPartEnd(s, i) ==
    IF i <= Len(s) /\ IsDigit(s[i]) THEN
        IF i + 1 <= Len(s) /\ IsDigit(s[i + 1]) THEN DigitPartEnd(s, i + 1)
        ELSE IF i + 2 <= Len(s) /\ s[i + 1] = "_" /\ IsDigit(s[i + 2])
        THEN DigitPartEnd(s, i + 2)
        ELSE i + 1
    ELSE i

\* The number and the count of the digits of s[i .. j - 1], underscores skipped.
RECURSIVE DigitsNumber(_, _, _, _)
DigitsNumber(s, i, j, acc) ==
    IF i >= j THEN acc
    ELSE IF s[i] = "_" THEN DigitsNumber(s, i + 1, j, acc)
    ELSE DigitsNumber(s, i + 1, j, 10 * acc + DigitValue(s[i]))

RECURSIVE DigitsCount(_, _, _)
DigitsCount(s, i, j) ==
    IF i >= j THEN 0
    ELSE (IF s[i] = "_" THEN 0 ELSE 1) + DigitsCount(s, i + 1, j)

Scaled(neg, num, scale, exponent) ==
    IF exponent >= scale THEN Finite(neg, num * Pow10(exponent - scale), 0)
    ELSE Finite(neg, num, scale - exponent)

\* number ::= ([digitpart] "." digitpart | digitpart ["."]) [exponent], read left
\* to right: intEnd, fracEnd and expEnd are the indexes after the integer part,
\* the fraction and the exponent.
NumberValue(neg, b, intEnd, hasPoint, fracEnd, exponent) ==
    IF hasPoint
    THEN Scaled(neg, DigitsNumber(b, intEnd + 1, fracEnd, DigitsNumber(b, 1, intEnd, 0)),
                DigitsCount(b, intEnd + 1, fracEnd), exponent)
    ELSE Scaled(neg, DigitsNumber(b, 1, intEnd, 0), 0, exponent)

ParseExponentDigits(input, neg, b, intEnd, hasPoint, fracEnd, expNeg, expStart, expEnd) ==
    IF expEnd > expStart /\ expEnd = Len(b) + 1
    THEN Ok(NumberValue(neg, b, intEnd, hasPoint, fracEnd,
                        IF expNeg THEN 0 - DigitsNumber(b, expStart, expEnd, 0)
                        ELSE DigitsNumber(b, expStart, expEnd, 0)))
    ELSE Raise("ValueError", input)

ParseExponent(input, neg, b, intEnd, hasPoint, fracEnd) ==
    IF fracEnd = Len(b) + 1
    THEN Ok(NumberValue(neg, b, intEnd, hasPoint, fracEnd, 0))
    ELSE IF b[fracEnd] \notin {"e", "E"} THEN Raise("ValueError", input)
    ELSE IF fracEnd + 1 <= Len(b) /\ b[fracEnd + 1] \in {"+", "-"}
    THEN ParseExponentDigits(input, neg, b, intEnd, hasPoint, fracEnd,
                             b[fracEnd + 1] = "-", fracEnd + 2,
                             DigitPartEnd(b, fracEnd + 2))
    ELSE ParseExponentDigits(input, neg, b, intEnd, hasPoint, fracEnd,
                             FALSE, fracEnd + 1, DigitPartEnd(b, fracEnd + 1))

ParseFraction(input, neg, b, intEnd, fracEnd) ==
    IF intEnd > 1 \/ fracEnd > intEnd + 1
    THEN ParseExponent(input, neg, b, intEnd, TRUE, fracEnd)
    ELSE Raise("ValueError", input)

ParseMantissa(input, neg, b, intEnd) ==
    IF intEnd <= Len(b) /\ b[intEnd] = "."
    THEN ParseFraction(input, neg, b, intEnd, DigitPartEnd(b, intEnd + 1))
    ELSE IF intEnd > 1 THEN ParseExponent(input, neg, b, intEnd, FALSE, intEnd)
    ELSE Raise("ValueError", input)

ParseNumber(input, neg, b) == ParseMantissa(input, neg, b, DigitPartEnd(b, 1))

\* floatvalue ::= [sign] (number | infinity | nan), whitespace stripped
ParseUnsigned(input, neg, b, word) ==
    IF word \in {<<"i", "n", "f">>, <<"i", "n", "f", "i", "n", "i", "t", "y">>}
    THEN Ok(Infinity(neg))
    ELSE IF word = <<"n", "a", "n">> THEN Ok(NaN)
    ELSE ParseNumber(input, neg, b)

ParseSigned(input, t) ==
    IF t # <<>> /\ Head(t) \in {"+", "-"}
    THEN ParseUnsigned(input, Head(t) = "-", Tail(t), LowerAll(Tail(t)))
    ELSE ParseUnsigned(input, FALSE, t, LowerAll(t))

float(input) ==
    IF input = None THEN Raise("TypeError", input)
    ELSE ParseSigned(input, RStrip(LStrip(input)))

(***************************************************************************)
(* '{:.<digits>f}'.format(x): the correctly rounded decimal of the         *)
(* binary64 value, with the sign of a negative value kept when it rounds   *)
(* to zero.                                                                *)
(***************************************************************************)
RECURSIVE NatChars(_)
NatChars(n) ==
    IF n < 10 THEN <<Digits[n + 1]>> ELSE NatChars(n \div 10) \o <<Digits[(n % 10) + 1]>>

RECURSIVE Padded(_, _)
Padded(n, width) ==
    IF width = 0 THEN <<>> ELSE Padded(n \div 10, width - 1) \o <<Digits[(n % 10) + 1]>>

\* num / d rounded to an integer; a tie goes to the side the binary64 value
\* lies on, and to the even integer when the binary64 value is the tie itself.
RoundedQuotient(num, d, err) ==
    IF 2 * (num % d) > d THEN (num \div d) + 1
    ELSE IF 2 * (num % d) < d THEN num \div d
    ELSE IF err > 0 THEN (num \div d) + 1
    ELSE IF err < 0 THEN num \div d
    ELSE (num \div d) + ((num \div d) % 2)

Rounded(x, digits) ==
    IF x.scale <= digits THEN x.num * Pow10(digits - x.scale)
    ELSE RoundedQuotient(x.num, Pow10(x.scale - digits), x.err)

FixedChars(q, unit, digits) ==
    NatChars(q \div unit)
        \o (IF digits = 0 THEN <<>> ELSE <<".">> \o Padded(q % unit, digits))

Sign(x) == IF x.neg THEN <<"-">> ELSE <<>>

FormatFixed(x, digits) ==
    IF x.kind = "nan" THEN <<"n", "a", "n">>
    ELSE IF x.kind = "inf" THEN Sign(x) \o <<"i", "n", "f">>
    ELSE Sign(x) \o FixedChars(Rounded(x, digits), Pow10(digits), digits)

FormatPosition(position) ==
    IF position.type # "ok" THEN position
    ELSE Ok(FormatFixed(position.value, 2) \o <<"m", "m">>)

format_position(input) == FormatPosition(float(input))

\* x > n for an integer n (the comparison of floats; nan compares false).
GreaterThan(x, n) ==
    CASE x.kind = "nan" -> FALSE
      [] x.kind = "inf" -> ~x.neg
      [] OTHER -> ~x.neg /\ x.num > n * Pow10(x.scale)

\* -1 * (n - x) for a finite x > n / 2: the subtraction is exact in binary64
\* there, and (n - n) is +0.0, which -1 turns into -0.0.
FiniteDifference(whole, x) ==
    IF x.num <= whole
    THEN [kind |-> "finite", neg |-> TRUE, num |-> whole - x.num,
          scale |-> x.scale, err |-> 0 - x.err]
    ELSE [kind |-> "finite", neg |-> FALSE, num |-> x.num - whole,
          scale |-> x.scale, err |-> x.err]

NegatedDifference(n, x) ==
    IF x.kind = "inf" THEN Infinity(FALSE) ELSE FiniteDifference(n * Pow10(x.scale), x)

HalfTurn == 180

FullTurn == 360

FormatRotation(angle) ==
    IF angle.type # "ok" THEN angle
    ELSE Ok(FormatFixed(IF GreaterThan(angle.value, HalfTurn)
                        THEN NegatedDifference(FullTurn, angle.value)
                        ELSE angle.value, 1))

format_rotation(input) == FormatRotation(float(input))

(***************************************************************************)
(* FIELDS_MAP: the NeoDen field, the KiCad field it is read from, and the  *)
(* transformation function ("None": none), in the dict's insertion order.  *)
(***************************************************************************)
\* A FIELDS_MAP with the sources of Mid X and Mid Y exchanged.
FIELDS_MAP_exchanged ==
    << [neoden_field |-> "Designator", kicad_field |-> "Ref",
        transform_function |-> "None"],
       [neoden_field |-> "Footprint", kicad_field |-> "Package",
        transform_function |-> "format_package"],
       [neoden_field |-> "Mid X", kicad_field |-> "PosY",
        transform_function |-> "format_position"],
       [neoden_field |-> "Mid Y", kicad_field |-> "PosX",
        transform_function |-> "format_position"],
       [neoden_field |-> "Layer", kicad_field |-> "Side",
        transform_function |-> "map_layer"],
       [neoden_field |-> "Rotation", kicad_field |-> "Rot",
        transform_function |-> "format_rotation"],
       [neoden_field |-> "Comment", kicad_field |-> "Val",
        transform_function |-> "format_value"] >>

FIELDS_MAP ==
    << [neoden_field |-> "Designator", kicad_field |-> "Ref",
        transform_function |-> "None"],
       [neoden_field |-> "Footprint", kicad_field |-> "Package",
        transform_function |-> "format_package"],
       [neoden_field |-> "Mid X", kicad_field |-> "PosX",
        transform_function |-> "format_position"],
       [neoden_field |-> "Mid Y", kicad_field |-> "PosY",
        transform_function |-> "format_position"],
       [neoden_field |-> "Layer", kicad_field |-> "Side",
        transform_function |-> "map_layer"],
       [neoden_field |-> "Rotation", kicad_field |-> "Rot",
        transform_function |-> "format_rotation"],
       [neoden_field |-> "Comment", kicad_field |-> "Val",
        transform_function |-> "format_value"] >>

Call(function, input) ==
    CASE function = "format_package" -> format_package(input)
      [] function = "format_position" -> format_position(input)
      [] function = "map_layer" -> map_layer(input)
      [] function = "format_rotation" -> format_rotation(input)
      [] function = "format_value" -> format_value(input)

\* A dict in insertion order is the sequence of its <<key, value>> items;
\* d[key] = value replaces the value of a key the dict holds and appends a new one.
Keys(d) == [i \in 1..Len(d) |-> d[i][1]]

HasKey(d, key) == \E i \in 1..Len(d) : d[i][1] = key

Get(d, key) == d[CHOOSE i \in 1..Len(d) : d[i][1] = key][2]

SetItem(d, key, value) ==
    IF HasKey(d, key)
    THEN [i \in 1..Len(d) |-> IF d[i][1] = key THEN <<key, value>> ELSE d[i]]
    ELSE Append(d, <<key, value>>)

\* The loop of transform_row from the k-th item of FIELDS_MAP on: an exception
\* of the lookup or of the transformation function leaves the function as it is.
RECURSIVE TransformFrom(_, _, _)
RECURSIVE StoreAndGoOn(_, _, _, _, _)
Transformed(transform_function, value) ==
    IF transform_function = "None" THEN Ok(value) ELSE Call(transform_function, value)

TransformFrom(input, k, output) ==
    IF k > Len(fields_map) THEN Ok(output)
    ELSE IF ~HasKey(input, fields_map[k].kicad_field)
    THEN Raise("KeyError", <<fields_map[k].kicad_field>>)
    ELSE StoreAndGoOn(input, k, output, fields_map[k].neoden_field,
                      Transformed(fields_map[k].transform_function,
                                  Get(input, fields_map[k].kicad_field)))

StoreAndGoOn(input, k, output, neoden_field, value) ==
    IF value.type # "ok" THEN value
    ELSE TransformFrom(input, k + 1, SetItem(output, neoden_field, value.value))

transform_row(input) == TransformFrom(input, 1, <<>>)

(***************************************************************************)
(* csv.DictReader: a row is dict(zip(fieldnames, values)); the fields a    *)
(* short row leaves out are None (restval) and the values a long row adds  *)
(* are a list under the key None (restkey).                                *)
(***************************************************************************)
RestKey == "<None>"

RECURSIVE Zip(_, _, _, _)
Zip(fieldnames, values, i, d) ==
    IF i > Len(fieldnames)
    THEN IF Len(values) > Len(fieldnames)
         THEN SetItem(d, RestKey, SubSeq(values, Len(fieldnames) + 1, Len(values)))
         ELSE d
    ELSE Zip(fieldnames, values, i + 1,
             SetItem(d, fieldnames[i], IF i <= Len(values) THEN values[i] ELSE None))

\* A reader that names the values by their position in the KiCad column order.
DictRowByPosition(fieldnames, values) ==
    Zip(<<"Ref", "Val", "Package", "PosX", "PosY", "Rot", "Side">>, values, 1, <<>>)

DictRow(fieldnames, values) == Zip(fieldnames, values, 1, <<>>)

\* csv.DictWriter.writerow: the dict's values in the order of the fieldnames,
\* "" for a missing key, ValueError for a key that is no fieldname; the writer
\* writes None as "".
DictToList(fieldnames, rowdict) ==
    IF \E i \in 1..Len(rowdict) : \A j \in 1..Len(fieldnames) : rowdict[i][1] # fieldnames[j]
    THEN Raise("ValueError", <<"dict contains fields not in fieldnames">>)
    ELSE Ok([j \in 1..Len(fieldnames) |->
               IF ~HasKey(rowdict, fieldnames[j]) \/ Get(rowdict, fieldnames[j]) = None
               THEN <<>> ELSE Get(rowdict, fieldnames[j])])

neoden_fields == [k \in 1..Len(fields_map) |-> fields_map[k].neoden_field]

BlankRow == [key \in 1..Len(neoden_fields) |-> <<neoden_fields[key], <<>>>>]

(***************************************************************************)
(* The input files of the model: a header line and at most MaxRows data    *)
(* lines, which are the rows the reader yields (it skips the blank lines   *)
(* of a file).  A line lays the values of a component out in the header's  *)
(* column order; one line is short by a value and one long by a value.     *)
(***************************************************************************)
MaxRows == 2

Headers ==
    { <<"Ref", "Package", "PosX", "PosY", "Side", "Rot", "Val">>,
      <<"Ref", "Val", "Package", "PosX", "PosY", "Rot", "Side">>,
      <<"Extra", "Val", "Rot", "Side", "PosY", "PosX", "Package", "Ref">>,
      <<"Ref", "Package", "PosX", "PosY", "Side", "Rot">> }

Component1 ==
    [Ref |-> <<"R", "1">>,
     Package |-> <<"R", "_", "0", "4", "0", "2", "_", "1", "0", "0", "5",
                   "M", "e", "t", "r", "i", "c">>,
     PosX |-> <<"1", "0", ".", "5">>,
     PosY |-> <<"2", "0", ".", "2", "5">>,
     Side |-> <<"t", "o", "p">>,
     Rot |-> <<"9", "0">>,
     Val |-> <<"4", Micro, "7">>,
     Extra |-> <<"x">>]

Component2 ==
    [Ref |-> <<"C", "1">>,
     Package |-> <<"F", "i", "d", "u", "c", "i", "a", "l", "_", "1", "m", "m">>,
     PosX |-> <<"0">>,
     PosY |-> <<"-", "0", ".", "1", "2", "5">>,
     Side |-> <<"b", "o", "t", "t", "o", "m">>,
     Rot |-> <<"2", "7", "0">>,
     Val |-> <<"1", "0", Ohm>>,
     Extra |-> <<>>]

Components ==
    { Component1, Component2,
      [Component1 EXCEPT !.PosX = <<"a", "b", "c">>],
      [Component1 EXCEPT !.PosX = <<"n", "a", "n">>],
      [Component1 EXCEPT !.PosY = <<"1", "e", "3">>],
      [Component1 EXCEPT !.PosY = <<" ", "1", "_", "0", " ">>],
      [Component1 EXCEPT !.PosY = <<>>],
      [Component1 EXCEPT !.Rot = <<"1", "8", "0", ".", "0", "4">>],
      [Component1 EXCEPT !.Rot = <<"i", "n", "f">>],
      [Component1 EXCEPT !.Rot = <<"9", "0", "d", "e", "g">>],
      [Component2 EXCEPT !.Side = <<"l", "e", "f", "t">>] }

Line(fieldnames, component) == [i \in 1..Len(fieldnames) |-> component[fieldnames[i]]]

Lines(fieldnames) ==
    { Line(fieldnames, c) : c \in Components }
      \cup { SubSeq(Line(fieldnames, Component2), 1, Len(fieldnames) - 1),
             Append(Line(fieldnames, Component2), <<"y">>) }

NoException == [type |-> "none", value |-> <<>>]

InitStatic ==
    /\ fields_map = FIELDS_MAP
    /\ package_regexes = PACKAGE_REGEXES

InitIdleCalls ==
    /\ fn = "none"
    /\ arg = <<>>
    /\ res = NoException
    /\ prev = NoException
    /\ calls = 0

Init ==
    /\ InitStatic
    /\ InitIdleCalls
    /\ header \in Headers
    /\ records \in UNION { [1..n -> Lines(header)] : n \in 0..MaxRows }
    /\ pos = 0
    /\ out = <<>>
    /\ pc = "writeheader"
    /\ exc = NoException
    /\ row = <<>>
    /\ ret = NoException

(***************************************************************************)
(* main, statement by statement.  An exception that a statement raises     *)
(* leaves main (pc = "raised"): nothing in the file catches it.            *)
(***************************************************************************)
Written(rowdict) == DictToList(neoden_fields, rowdict)

\* writer.writeheader(): the row of the fieldnames themselves
WriteHeader ==
    /\ pc = "writeheader"
    /\ out' = Append(out, neoden_fields)
    /\ pc' = "writeblank"
    /\ UNCHANGED <<header, records, pos, exc, row, ret, fields_map, package_regexes,
                   fn, arg, res, prev, calls>>

\* A main that leaves the blank row out.
WriteBlankOmitted ==
    /\ pc = "writeblank"
    /\ pc' = "rows"
    /\ UNCHANGED <<header, records, pos, out, exc, row, ret, fields_map,
                   package_regexes, fn, arg, res, prev, calls>>

\* writer.writerow({key: "" for key in neoden_fields})
WriteBlank ==
    /\ pc = "writeblank"
    /\ out' = Append(out, Written(BlankRow).value)
    /\ pc' = "rows"
    /\ UNCHANGED <<header, records, pos, exc, row, ret, fields_map, package_regexes,
                   fn, arg, res, prev, calls>>

\* writer.writerow(output), or the exception of transform_row going through
WriteRow(output) == IF output.type = "ok" THEN Written(output.value) ELSE output

\* A loop that skips a row whose conversion raises.
RowWrittenOrSkipped(next, output, written) ==
    /\ pos' = pos + 1
    /\ row' = next
    /\ ret' = output
    /\ out' = IF written.type = "ok" THEN Append(out, written.value) ELSE out
    /\ UNCHANGED <<pc, exc>>

\* A transform_row that stores the converted values into its input row.
RowWrittenInPlace(next, output, written) ==
    /\ pos' = pos + 1
    /\ row' = IF output.type = "ok" THEN next \o output.value ELSE next
    /\ ret' = output
    /\ IF written.type = "ok"
       THEN /\ out' = Append(out, written.value)
            /\ UNCHANGED <<pc, exc>>
       ELSE /\ pc' = "raised"
            /\ exc' = written
            /\ UNCHANGED out

RowWritten(next, output, written) ==
    /\ pos' = pos + 1
    /\ row' = next
    /\ ret' = output
    /\ IF written.type = "ok"
       THEN /\ out' = Append(out, written.value)
            /\ UNCHANGED <<pc, exc>>
       ELSE /\ pc' = "raised"
            /\ exc' = written
            /\ UNCHANGED out

RowConverted(next, output) == RowWritten(next, output, WriteRow(output))

RowRead(next) == RowConverted(next, transform_row(next))

\* for row in reader: writer.writerow(transform_row(row))
ConvertRow ==
    /\ pc = "rows"
    /\ pos < Len(records)
    /\ RowRead(DictRow(header, records[pos + 1]))
    /\ UNCHANGED <<header, records, fields_map, package_regexes,
                   fn, arg, res, prev, calls>>

\* the reader is exhausted: input.close(); output.close(); return 0
Close ==
    /\ pc = "rows"
    /\ pos = Len(records)
    /\ pc' = "returned"
    /\ UNCHANGED <<header, records, pos, out, exc, row, ret, fields_map,
                   package_regexes, fn, arg, res, prev, calls>>

Next == WriteHeader \/ WriteBlank \/ ConvertRow \/ Close

Spec == Init /\ [][Next]_vars

(***************************************************************************)
(* The value transformation functions on their own: a function is called   *)
(* on an argument, and then again on what it returned, up to MaxCalls      *)
(* calls in all.                                                           *)
(***************************************************************************)
MaxCalls == 2

Concat(lefts, rights) == { l \o r : l \in lefts, r \in rights }

PackageArgs ==
    Concat({ <<>>, <<"R">>, <<"C">>, <<"C", "u", "s", "t", "o", "m">>,
             <<"F", "i", "d", "u", "c", "i", "a", "l">>,
             <<"S", "O", "I", "C", "-", "8">>,
             <<"R", "_", "A", "r", "r", "a", "y", "_", "C", "o", "n", "v", "e", "x">> },
           { <<>>, <<"_", "X", "Y", "Z">>, <<"_", "1", "m", "m">>,
             <<"_", "0", "4", "0", "2", "_", "1", "0", "0", "5", "M", "e", "t", "r", "i", "c">>,
             <<"_", "3", ".", "9", "x", "4", ".", "9", "m", "m">>,
             <<"_", "4", "x", "0", "4", "0", "2">>,
             <<"_", "4", "x", "0", "4", "0", "2", "_", "1", "_", "2", "M", "e", "t", "r", "i", "c">> })

ValueArgs ==
    { <<"4", Micro, "7">>, <<"1", "0", Ohm>>, <<"4", Micro, "7", Ohm>>,
      <<"4", "u", "7">>, <<"1", "0", "0", "n">> }

LayerArgs ==
    { <<"t", "o", "p">>, <<"b", "o", "t", "t", "o", "m">>, <<"l", "e", "f", "t">>,
      <<"T">>, <<"B">>, <<"T", "o", "p">> }

NumberArgs ==
    Concat({ <<"0">>, <<"1">>, <<"9", "0">>, <<"1", "7", "9">>, <<"1", "8", "0">>,
             <<"1", "8", "1">>, <<"2", "7", "0">>, <<"3", "5", "9">> },
           { <<>>, <<".", "0">>, <<".", "0", "4">>, <<".", "0", "5">>, <<".", "5">>,
             <<".", "1", "2", "5">>, <<".", "2", "5">>, <<".", "9", "5">>,
             <<".", "9", "6">> })
      \cup { <<"3", "6", "0">>, <<"-", "9", "0">>, <<"-", "0", ".", "1", "2", "5">>,
             <<"n", "a", "n">>, <<"1", "e", "2">> }

Args == PackageArgs \cup ValueArgs \cup LayerArgs \cup NumberArgs

InitIdleMain ==
    /\ header = <<>>
    /\ records = <<>>
    /\ pos = 0
    /\ out = <<>>
    /\ pc = "idle"
    /\ exc = NoException
    /\ row = <<>>
    /\ ret = NoException

InitCalls ==
    /\ InitStatic
    /\ InitIdleMain
    /\ fn = "none"
    /\ arg \in Args
    /\ res = NoException
    /\ prev = NoException
    /\ calls = 0

Called(function, result) ==
    /\ calls = 0
    /\ fn' = function
    /\ res' = result
    /\ prev' = Ok(arg)
    /\ calls' = 1
    /\ UNCHANGED <<header, records, pos, out, pc, exc, row, ret, fields_map,
                   package_regexes, arg>>

CallFormatPackage == Called("format_package", format_package(arg))

CallFormatValue == Called("format_value", format_value(arg))

CallFormatPosition == Called("format_position", format_position(arg))

CallMapLayer == Called("map_layer", map_layer(arg))

CallFormatRotation == Called("format_rotation", format_rotation(arg))

\* the function called on its own result
CallAgain ==
    /\ calls >= 1
    /\ calls < MaxCalls
    /\ res.type = "ok"
    /\ res' = Call(fn, res.value)
    /\ prev' = res
    /\ calls' = calls + 1
    /\ UNCHANGED <<header, records, pos, out, pc, exc, row, ret, fields_map,
                   package_regexes, fn, arg>>

NextCalls ==
    \/ CallFormatPackage
    \/ CallFormatValue
    \/ CallFormatPosition
    \/ CallMapLayer
    \/ CallFormatRotation
    \/ CallAgain

SpecCalls == InitCalls /\ [][NextCalls]_vars

(***************************************************************************)
(* The properties.  What a row should come out as is stated from the       *)
(* columns of the file by name, apart from DictRow and FIELDS_MAP.         *)
(***************************************************************************)
TargetNames == <<"Designator", "Footprint", "Mid X", "Mid Y", "Layer", "Rotation", "Comment">>

SourceNames == <<"Ref", "Package", "PosX", "PosY", "Side", "Rot", "Val">>

EmptyRow == [k \in 1..7 |-> <<>>]

\* The rows the reader has yielded, and what became of the i-th: the row
\* written for it, or the exception that ended the run at it.
Yielded(i) == DictRow(header, records[i])

Outcome(i) == IF i + 2 <= Len(out) THEN Ok(out[i + 2]) ELSE exc

Conversion(input) == WriteRow(transform_row(input))

\* C1: main writes the header row, then one row of seven empty fields, then the
\* conversion of each input row in input order: after n rows that all convert,
\* exactly n + 2 rows, none dropped, duplicated or reordered.
C1_RowsInOrder ==
    /\ pc # "writeheader" => Len(out) >= 1 /\ out[1] = TargetNames
    /\ pc \notin {"writeheader", "writeblank"} => Len(out) >= 2 /\ out[2] = EmptyRow
    /\ pc = "rows" => Len(out) = pos + 2
    /\ pc = "returned" => pos = Len(records) /\ Len(out) = Len(records) + 2
    /\ \A i \in 1..(Len(out) - 2) : Conversion(Yielded(i)) = Ok(out[i + 2])

C1_Witness ==
    /\ pc = "returned"
    /\ header = <<"Ref", "Package", "PosX", "PosY", "Side", "Rot", "Val">>
    /\ records = <<Line(header, Component1), Line(header, Component2)>>
    /\ out = << TargetNames, EmptyRow,
                << <<"R", "1">>, <<"0", "4", "0", "2">>,
                   <<"1", "0", ".", "5", "0", "m", "m">>,
                   <<"2", "0", ".", "2", "5", "m", "m">>,
                   <<"T">>, <<"9", "0", ".", "0">>, <<"4", "u", "7">> >>,
                << <<"C", "1">>, <<"F", "i", "d", "u", "c", "i", "a", "l">>,
                   <<"0", ".", "0", "0", "m", "m">>,
                   <<"-", "0", ".", "1", "2", "m", "m">>,
                   <<"B">>, <<"-", "9", "0", ".", "0">>, <<"1", "0">> >> >>

\* C2: for an input row that holds the seven source fields as strings, with
\* PosX, PosY and Rot that parse, transform_row returns the seven target keys in
\* the order Designator, Footprint, Mid X, Mid Y, Layer, Rotation, Comment, each
\* with its source field's value after the entry's transformation.
HoldsSourceFields(input) ==
    \A k \in 1..7 : HasKey(input, SourceNames[k]) /\ Get(input, SourceNames[k]) # None

ParsesNumbers(input) ==
    /\ float(Get(input, "PosX")).type = "ok"
    /\ float(Get(input, "PosY")).type = "ok"
    /\ float(Get(input, "Rot")).type = "ok"

C2_SevenFields ==
    (pos > 0 /\ HoldsSourceFields(row) /\ ParsesNumbers(row)) =>
        ret = Ok(<< <<"Designator", Get(row, "Ref")>>,
                    <<"Footprint", format_package(Get(row, "Package")).value>>,
                    <<"Mid X", format_position(Get(row, "PosX")).value>>,
                    <<"Mid Y", format_position(Get(row, "PosY")).value>>,
                    <<"Layer", map_layer(Get(row, "Side")).value>>,
                    <<"Rotation", format_rotation(Get(row, "Rot")).value>>,
                    <<"Comment", format_value(Get(row, "Val")).value>> >>)

C2_Witness ==
    /\ pos > 0
    /\ header[1] = "Extra"
    /\ HoldsSourceFields(row) /\ ParsesNumbers(row)
    /\ Keys(ret.value) = TargetNames
    /\ Get(ret.value, "Mid X") = <<"1", "0", ".", "5", "0", "m", "m">>
    /\ Get(ret.value, "Mid Y") = <<"2", "0", ".", "2", "5", "m", "m">>

\* C3 as stated: format_package, format_value and map_layer are idempotent,
\* f(f(s)) = f(s) for every string s.
C3_Idempotent ==
    (calls >= 2 /\ fn \in {"format_package", "format_value", "map_layer"}) => res = prev

\* C3 as amended: format_package and format_value are idempotent; map_layer
\* applied twice gives "" for every input, which is map_layer of the input only
\* when the input is neither "top" nor "bottom".
C3_IdempotentButLayer ==
    /\ (calls >= 2 /\ fn \in {"format_package", "format_value"}) => res = prev
    /\ (calls >= 2 /\ fn = "map_layer") => res = Ok(<<>>)
    /\ (calls = 2 /\ fn = "map_layer") =>
           (res = prev <=> arg \notin {<<"t", "o", "p">>, <<"b", "o", "t", "t", "o", "m">>})

C3_Witness ==
    /\ calls = 2
    /\ fn = "format_package"
    /\ prev # Ok(arg)
    /\ res = prev

\* C4: for an angle in [0, 360), the string format_rotation returns denotes a
\* value in (-180, 180]: never -180.0 and never below it.
Denoted(chars) == float(chars).value

InExpectedRange(x) == x.kind = "finite" /\ ~x.neg /\ x.num < FullTurn * Pow10(x.scale)

InHalfOpenTurn(x) ==
    /\ x.kind = "finite"
    /\ x.num <= HalfTurn * Pow10(x.scale)
    /\ x.neg => (x.num < HalfTurn * Pow10(x.scale) \/ x.num = 0)

C4_RotationRange ==
    (/\ calls = 1
     /\ fn = "format_rotation"
     /\ res.type = "ok"
     /\ InExpectedRange(Denoted(arg))) => InHalfOpenTurn(Denoted(res.value))

\* C5: format_package returns the named group of the first of the four patterns
\* (Metric size, SOIC-8, Fiducial, R_Array_Convex) that matches, also when a
\* later pattern matches too, and the input itself when none matches.
Captured(k, input) == group(match(PACKAGE_REGEXES[k], input), input)

Matches(k, input) == match(PACKAGE_REGEXES[k], input).matched

StartsWith(input, prefix) ==
    Len(input) >= Len(prefix) /\ SubSeq(input, 1, Len(prefix)) = prefix

C5_FirstPatternWins ==
    (calls = 1 /\ fn = "format_package") =>
        /\ Len(PACKAGE_REGEXES) = 4
        /\ Matches(2, arg) <=> StartsWith(arg, <<"S", "O", "I", "C", "-", "8">>)
        /\ Matches(3, arg) <=> StartsWith(arg, <<"F", "i", "d", "u", "c", "i", "a", "l", "_">>)
        /\ Matches(4, arg) =>
               StartsWith(arg, <<"R", "_", "A", "r", "r", "a", "y", "_",
                                 "C", "o", "n", "v", "e", "x", "_">>)
        /\ res = IF Matches(1, arg) THEN Ok(Captured(1, arg))
                 ELSE IF Matches(2, arg) THEN Ok(<<"S", "O", "I", "C", "-", "8">>)
                 ELSE IF Matches(3, arg) THEN Ok(<<"F", "i", "d", "u", "c", "i", "a", "l">>)
                 ELSE IF Matches(4, arg) THEN Ok(Captured(4, arg))
                 ELSE Ok(arg)

C5_Witness ==
    /\ calls = 1
    /\ fn = "format_package"
    /\ Matches(1, arg) /\ Matches(3, arg)
    /\ res = Ok(<<"0", "4", "0", "2">>)

\* C6 as stated: when the input row lacks a source field of the mapping table,
\* transform_row fails with a Missing-Field error (KeyError) and the run ends:
\* nothing is written for that row or a later one, and the rows written are the
\* header, the blank row and the conversions of the rows before it, in order.
Lacks(input) == \E k \in 1..7 : ~HasKey(input, SourceNames[k])

FirstLacking(input) == CHOOSE k \in 1..7 :
    ~HasKey(input, SourceNames[k]) /\ \A j \in 1..(k - 1) : HasKey(input, SourceNames[j])

EndedAtRow ==
    /\ pc = "raised"
    /\ Len(out) = pos + 1
    /\ out[1] = TargetNames
    /\ out[2] = EmptyRow
    /\ \A i \in 1..(pos - 1) : Conversion(Yielded(i)) = Ok(out[i + 2])

C6_MissingField ==
    (pos > 0 /\ Lacks(row)) => (EndedAtRow /\ exc.type = "KeyError")

\* C6 as amended: such a row ends the run as stated, with the KeyError of the
\* first field it lacks, unless the transformation of an entry before that field
\* raises, and then with that exception.
EntryResult(input, k) ==
    IF k = 1 THEN Ok(Get(input, "Ref"))
    ELSE IF k = 2 THEN format_package(Get(input, "Package"))
    ELSE IF k = 3 THEN format_position(Get(input, "PosX"))
    ELSE IF k = 4 THEN format_position(Get(input, "PosY"))
    ELSE IF k = 5 THEN map_layer(Get(input, "Side"))
    ELSE IF k = 6 THEN format_rotation(Get(input, "Rot"))
    ELSE format_value(Get(input, "Val"))

RaisesBefore(input, k) == \E j \in 1..(k - 1) : EntryResult(input, j).type # "ok"

FirstRaising(input, k) == CHOOSE j \in 1..(k - 1) :
    EntryResult(input, j).type # "ok" /\ \A i \in 1..(j - 1) : EntryResult(input, i).type = "ok"

C6_MissingFieldOrEarlier ==
    (pos > 0 /\ Lacks(row)) =>
        /\ EndedAtRow
        /\ exc = IF RaisesBefore(row, FirstLacking(row))
                 THEN EntryResult(row, FirstRaising(row, FirstLacking(row)))
                 ELSE Raise("KeyError", <<SourceNames[FirstLacking(row)]>>)

C6_Witness ==
    /\ pos = 1
    /\ Len(records) = 2
    /\ Lacks(row)
    /\ pc = "raised"
    /\ exc = Raise("KeyError", <<"Val">>)
    /\ out = <<TargetNames, EmptyRow>>

\* C7: when a transformation fails on a PosX, PosY or Rot that does not parse,
\* the failure transform_row propagates carries the target field name of the
\* entry whose transformation failed (Mid X, Mid Y or Rotation).
FailedTarget(input) ==
    IF float(Get(input, "PosX")).type # "ok" THEN "Mid X"
    ELSE IF float(Get(input, "PosY")).type # "ok" THEN "Mid Y"
    ELSE "Rotation"

C7_TaggedWithTarget ==
    (pc = "raised" /\ exc.type = "ValueError") =>
        \E i \in 1..Len(exc.value) : exc.value[i] = FailedTarget(row)

\* C8: a PosX, PosY or Rot that is not a decimal number (sign, digits, at most
\* one point) ends the run: no such value is formatted into a written row.
AllDigits(s) == \A i \in 1..Len(s) : IsDigit(s[i])

Unsigned(s) == IF s # <<>> /\ Head(s) \in {"+", "-"} THEN Tail(s) ELSE s

IsDecimalBody(u) ==
    \E k \in 0..Len(u) :
        /\ AllDigits(SubSeq(u, 1, k))
        /\ \/ k = Len(u) /\ k > 0
           \/ /\ k < Len(u)
              /\ u[k + 1] = "."
              /\ AllDigits(SubSeq(u, k + 2, Len(u)))
              /\ Len(u) > 1

IsDecimal(s) == s # None /\ IsDecimalBody(Unsigned(s))

C8_OnlyDecimalsWritten ==
    \A i \in 1..(Len(out) - 2) :
        \A name \in {"PosX", "PosY", "Rot"} :
            HasKey(Yielded(i), name) /\ IsDecimal(Get(Yielded(i), name))

\* C9: row conversion is deterministic and changes nothing: FIELDS_MAP and
\* PACKAGE_REGEXES stay as constructed, the input row is as the reader yielded
\* it, converting it again gives what was returned, and equal rows at different
\* positions of a run have the same outcome.
C9_PureConversion ==
    /\ fields_map = FIELDS_MAP
    /\ package_regexes = PACKAGE_REGEXES
    /\ pos > 0 => row = Yielded(pos) /\ ret = transform_row(row)
    /\ \A i, j \in 1..pos : records[i] = records[j] => Outcome(i) = Outcome(j)

C9_Witness ==
    /\ pc = "returned"
    /\ pos = 2
    /\ records[1] = records[2]
    /\ Len(header) = 8
    /\ out[3] = out[4]

\* C10: the outcome of a row depends only on the values of its seven named
\* source fields: it is the outcome of the row that holds just these seven
\* values, whatever the order of the file's columns and whatever other columns
\* the file has.
Column(name) == CHOOSE i \in 1..Len(header) : header[i] = name

HasColumns(i) ==
    \A k \in 1..7 :
        /\ Cardinality({c \in 1..Len(header) : header[c] = SourceNames[k]}) = 1
        /\ Column(SourceNames[k]) <= Len(records[i])

JustSourceFields(i) == [k \in 1..7 |-> <<SourceNames[k], records[i][Column(SourceNames[k])]>>]

C10_OnlyNamedValues ==
    \A i \in 1..pos : HasColumns(i) => Outcome(i) = Conversion(JustSourceFields(i))

C10_Witness ==
    /\ pos >= 1
    /\ header[1] = "Extra"
    /\ Len(records[1]) = 8
    /\ records[1][8] = <<"R", "1">>
    /\ Len(out) >= 3
    /\ out[3] = << <<"R", "1">>, <<"0", "4", "0", "2">>,
                   <<"1", "0", ".", "5", "0", "m", "m">>,
                   <<"2", "0", ".", "2", "5", "m", "m">>,
                   <<"T">>, <<"9", "0", ".", "0">>, <<"4", "u", "7">> >>

====
